---------------------------- MODULE Spec2Model ----------------------------
(***************************************************************************)
(* A model of the Sudoku solver and generator of src/main.py: the domain   *)
(* computation (get_empty_domains), forward checking (forward_check), the  *)
(* two backtracking searches (solve_sudoku, count_solutions), the random   *)
(* full-grid filler (generate_full_solution) and the puzzle carver         *)
(* (generate_sudoku).                                                      *)
(*                                                                         *)
(* The recursive functions are modelled as stack machines: one action per  *)
(* stretch of code between two calls/returns of the recursion.  Python     *)
(* dicts are modelled by value as functions; every dict of the program is  *)
(* derived from the row-major dict built by get_empty_domains by deleting  *)
(* keys and copying, so its iteration order is always row-major.  The      *)
(* iteration order of a Python set is an implementation detail and is      *)
(* modelled as a choice among the remaining values (NextVals): any of them *)
(* in the runs of solve_sudoku and count_solutions (Spec), the least one   *)
(* in the runs of generate_sudoku (SpecGen), whose eighty-one searches     *)
(* would otherwise multiply the orders.                                    *)
(***************************************************************************)
EXTENDS Integers, Sequences, FiniteSets, TLC

VARIABLES
    op,          \* the operation running: "solve", "count", "generate", "threads"
    setorder,    \* how the sets of this run iterate: "any" order or "asc"ending
    pc,          \* control state of the running operation
    input,       \* the grid the caller handed to solve_sudoku / count_solutions
    grid,        \* the grid the search works on (mutated in place)
    domains,     \* the nonlocal variable `domains` of the running search
    stack,       \* the frames of the active backtrack() calls, innermost last
    steps,       \* steps[0] of solve_sudoku
    count,       \* count[0] of count_solutions
    limit,       \* the parameter `limit` of count_solutions
    retval,      \* the value returned by the backtrack() call that just returned
    result,      \* what the top-level operation returned
    difficulty,  \* argument of generate_sudoku
    puzzle,      \* the local `grid` of generate_sudoku
    gstack,      \* the frames of the active generate_full_solution calls
    nshuf,       \* number of random.shuffle calls made so far
    cells,       \* the part of the shuffled list `cells` not yet visited
    backup,      \* the local `backup` of generate_sudoku
    rc,          \* the loop variable (r, c) of generate_sudoku
    removed,     \* the local `removed` of generate_sudoku
    gdomains,    \* the module-level global `domains` (a reference into heap)
    heap,        \* the dict objects allocated by get_empty_domains
    tpc,         \* per thread: control state
    tgrid,       \* per thread: the argument `grid`
    tpos,        \* per thread: position of the loop over (r, c)
    tref,        \* per thread: the dict object loaded from the global for a store
    tret         \* per thread: the dict object get_empty_domains returned

vars == << op, setorder, pc, input, grid, domains, stack, steps, count, limit, retval,
           result, difficulty, puzzle, gstack, nshuf, cells, backup, rc,
           removed, gdomains, heap, tpc, tgrid, tpos, tref, tret >>

searchVars == << grid, domains, stack, steps, count, retval >>
genVars    == << difficulty, puzzle, gstack, nshuf, cells, backup, rc, removed >>
thrVars    == << gdomains, heap, tpc, tgrid, tpos, tref, tret >>

---------------------------------------------------------------------------
(* Program constants *)

N == 9          \* range(9): rows, columns, digits
B == 3          \* side of a box
EasyClues == 36
MediumClues == 30
HardClues == 24
DefaultLimit == 2    \* limit=2

(* Bounds of the model *)

MaxBlanks == 8       \* an input grid of solve/count has at most this many blanks
MaxLimit == 3        \* count_solutions is called with limit in 0..MaxLimit
MaxShuffled == 1     \* random.shuffle calls that may return a non-identity order
NThreads == 2        \* threads calling into the core at once

Idx == 0 .. (N - 1)
Digits == 1 .. N
Cells == Idx \X Idx
None == "None"

Min(a, b) == IF a < b THEN a ELSE b

Row(cell) == cell[1]
Col(cell) == cell[2]
RowMajor(cell) == N * Row(cell) + Col(cell)
CellAt(k) == << k \div N, k % N >>

\* br, bc = 3*(r//3), 3*(c//3)
BoxOrigin(k) == B * (k \div B)
BoxCells(cell) ==
    { << i, j >> : i \in BoxOrigin(Row(cell)) .. (BoxOrigin(Row(cell)) + B - 1),
                   j \in BoxOrigin(Col(cell)) .. (BoxOrigin(Col(cell)) + B - 1) }
RowCells(cell) == { << Row(cell), j >> : j \in Idx }
ColCells(cell) == { << i, Col(cell) >> : i \in Idx }

---------------------------------------------------------------------------
(* get_empty_domains, lines 33-51 (as a single-threaded function) *)

\* used = set(grid[r]) | {grid[i][c]} | box values
Used(g, cell) ==
    { g[p] : p \in RowCells(cell) \cup ColCells(cell) \cup BoxCells(cell) }

\* line 50: {n for n in range(1,10) if n not in used}
CellDomain(g, cell) == { n \in Digits : n \notin Used(g, cell) }

\* a domain computation that forgets the row (line 44)
get_empty_domains_no_row(g) ==
    [ cell \in { p \in Cells : g[p] = 0 } |->
        { n \in Digits :
            n \notin { g[p] : p \in ColCells(cell) \cup BoxCells(cell) } } ]

get_empty_domains(g) ==
    [ cell \in { p \in Cells : g[p] = 0 } |-> CellDomain(g, cell) ]

---------------------------------------------------------------------------
(* forward_check, lines 53-79 *)

\* lines 62-66: the row and column peers, in the order the loop appends them
RECURSIVE RowColPeers(_, _, _)
RowColPeers(d, var, i) ==
    IF i = N THEN << >>
    ELSE (IF i # Col(var) /\ << Row(var), i >> \in DOMAIN d
             THEN << << Row(var), i >> >> ELSE << >>)
         \o (IF i # Row(var) /\ << i, Col(var) >> \in DOMAIN d
             THEN << << i, Col(var) >> >> ELSE << >>)
         \o RowColPeers(d, var, i + 1)

\* lines 68-72: the box peers, k enumerates the box row by row
RECURSIVE BoxPeers(_, _, _)
BoxPeers(d, var, k) ==
    IF k = B * B THEN << >>
    ELSE LET p == << BoxOrigin(Row(var)) + (k \div B),
                     BoxOrigin(Col(var)) + (k % B) >>
         IN  (IF p # var /\ p \in DOMAIN d THEN << p >> ELSE << >>)
             \o BoxPeers(d, var, k + 1)

Peers(d, var) == RowColPeers(d, var, 0) \o BoxPeers(d, var, 0)

\* lines 74-79: remove value from each peer in turn, stop at the first wipe-out
RECURSIVE Prune(_, _, _, _)
Prune(d, peers, value, k) ==
    IF k > Len(peers) THEN [ ok |-> TRUE, domains |-> d ]
    ELSE LET peer == peers[k] IN
         IF value \in d[peer]
         THEN LET d2 == [ d EXCEPT ![peer] = @ \ { value } ] IN
              IF d2[peer] = {} THEN [ ok |-> FALSE, domains |-> d2 ]
              ELSE Prune(d2, peers, value, k + 1)
         ELSE Prune(d, peers, value, k + 1)

\* a forward_check that forgets the row and column peers (lines 62-66)
forward_check_box_only(d, var, value) == Prune(d, BoxPeers(d, var, 0), value, 1)

\* returns the boolean and the (mutated) dict it was given
forward_check(d, var, value) == Prune(d, Peers(d, var), value, 1)

---------------------------------------------------------------------------
(* Helpers shared by the two searches *)

\* a search that forgets to delete the selected cell from the map
Del_forgotten(d, var) == d

\* del domains[var]
Del(d, var) == [ cell \in (DOMAIN d) \ { var } |-> d[cell] ]

\* min(domains, key=lambda v: len(domains[v])): the first minimal key in dict
\* order, which is row-major
MinVar(d) ==
    CHOOSE v \in DOMAIN d :
        \A w \in DOMAIN d :
            \/ Cardinality(d[v]) < Cardinality(d[w])
            \/ Cardinality(d[v]) = Cardinality(d[w]) /\ RowMajor(v) <= RowMajor(w)

\* the frame of a backtrack() call in its candidate loop
Frame(var, todo, saved) ==
    [ var |-> var, todo |-> todo, val |-> 0,
      saved_domains |-> saved, domains_backup |-> saved ]

\* a search that leaves the trial digit in the grid
Undo_forgotten(g, var) == g

\* grid[r][c] = 0
Undo(g, var) == [ g EXCEPT ![var] = 0 ]

\* an off-by-one test of the bound
ReachedLimit_late(c, l) == c > l

\* line 146: if count[0] >= limit
ReachedLimit(c, l) == c >= l

\* `for val in choices`: the values the iteration of the set may yield next
NextVals(todo) ==
    IF todo = {} \/ setorder = "any" THEN todo
    ELSE { CHOOSE v \in todo : \A w \in todo : v <= w }

Top == stack[Len(stack)]
Pop == SubSeq(stack, 1, Len(stack) - 1)
SetTop(f) == [ stack EXCEPT ![Len(stack)] = f ]

---------------------------------------------------------------------------
(* solve_sudoku, lines 81-133 *)

\* lines 86-88 and the call of line 132
solve_start ==
    /\ op = "solve" /\ pc = "start"
    /\ domains' = get_empty_domains(grid)
    /\ steps' = 0
    /\ pc' = "enter"
    /\ UNCHANGED << op, setorder, input, grid, stack, count, limit, retval, result >>
    /\ UNCHANGED genVars /\ UNCHANGED thrVars

\* lines 91-105: entry of backtrack() up to the candidate loop
solve_enter ==
    /\ op = "solve" /\ pc = "enter"
    /\ steps' = steps + 1
    /\ IF DOMAIN domains = {}
       THEN /\ retval' = TRUE /\ pc' = "ret"
            /\ UNCHANGED << domains, stack >>
       ELSE LET var == MinVar(domains)
                choices == domains[var]
            IN  IF choices = {}
                THEN /\ retval' = FALSE /\ pc' = "ret"
                     /\ UNCHANGED << domains, stack >>
                ELSE /\ stack' = Append(stack, Frame(var, choices, domains))
                     /\ domains' = Del(domains, var)
                     /\ pc' = "loop"
                     /\ UNCHANGED retval
    /\ UNCHANGED << op, setorder, input, grid, count, limit, result >>
    /\ UNCHANGED genVars /\ UNCHANGED thrVars

\* lines 106-124: one iteration of `for val in choices`, up to the recursive
\* call, or through the undo when forward checking fails
solve_try ==
    /\ op = "solve" /\ pc = "loop" /\ Top.todo # {}
    /\ \E val \in NextVals(Top.todo) :
        LET f == Top
            fc == forward_check(domains, f.var, val)   \* on a deepcopy
        IN  IF fc.ok
            THEN /\ grid' = [ grid EXCEPT ![f.var] = val ]
                 /\ stack' = SetTop([ f EXCEPT !.todo = @ \ { val }, !.val = val,
                                               !.domains_backup = domains ])
                 /\ domains' = fc.domains
                 /\ pc' = "enter"
            ELSE /\ grid' = Undo(grid, f.var)
                 /\ stack' = SetTop([ f EXCEPT !.todo = @ \ { val }, !.val = val ])
                 /\ domains' = Del(f.saved_domains, f.var)
                 /\ pc' = "loop"
    /\ UNCHANGED << op, setorder, input, steps, count, limit, retval, result >>
    /\ UNCHANGED genVars /\ UNCHANGED thrVars

\* lines 117-124: the recursive call returned
solve_return ==
    /\ op = "solve" /\ pc = "ret" /\ stack # << >>
    /\ IF retval
       THEN /\ stack' = Pop                       \* line 118: return True
            /\ UNCHANGED << grid, domains, pc >>
       ELSE /\ grid' = Undo(grid, Top.var)
            /\ domains' = Del(Top.saved_domains, Top.var)
            /\ pc' = "loop"
            /\ UNCHANGED stack
    /\ UNCHANGED << op, setorder, input, steps, count, limit, retval, result >>
    /\ UNCHANGED genVars /\ UNCHANGED thrVars

\* lines 125-129: no value worked
solve_exhausted ==
    /\ op = "solve" /\ pc = "loop" /\ Top.todo = {}
    /\ grid' = Undo(grid, Top.var)
    /\ domains' = Top.saved_domains
    /\ stack' = Pop
    /\ retval' = FALSE
    /\ pc' = "ret"
    /\ UNCHANGED << op, setorder, input, steps, count, limit, result >>
    /\ UNCHANGED genVars /\ UNCHANGED thrVars

\* lines 132-133
solve_finish ==
    /\ op = "solve" /\ pc = "ret" /\ stack = << >>
    /\ result' = IF retval THEN [ kind |-> "grid", grid |-> grid ]
                           ELSE [ kind |-> "None" ]
    /\ pc' = "done"
    /\ UNCHANGED << op, setorder, input, limit >>
    /\ UNCHANGED searchVars /\ UNCHANGED genVars /\ UNCHANGED thrVars

---------------------------------------------------------------------------
(* count_solutions, lines 135-183; generate_sudoku calls it on a copy *)

Counting == op \in { "count", "generate" }

\* lines 140-141 and the call of line 182
count_start ==
    /\ op = "count" /\ pc = "start"
    /\ count' = 0
    /\ domains' = get_empty_domains(grid)
    /\ pc' = "enter"
    /\ UNCHANGED << op, setorder, input, grid, stack, steps, limit, retval, result >>
    /\ UNCHANGED genVars /\ UNCHANGED thrVars

\* lines 144-157: entry of backtrack() up to the candidate loop
count_enter ==
    /\ Counting /\ pc = "enter"
    /\ IF ReachedLimit(count, limit)
       THEN /\ retval' = TRUE /\ pc' = "ret"
            /\ UNCHANGED << count, domains, stack >>
       ELSE IF DOMAIN domains = {}
       THEN /\ count' = count + 1
            /\ retval' = FALSE /\ pc' = "ret"
            /\ UNCHANGED << domains, stack >>
       ELSE LET var == MinVar(domains)
                choices == domains[var]
            IN  IF choices = {}
                THEN /\ retval' = FALSE /\ pc' = "ret"
                     /\ UNCHANGED << count, domains, stack >>
                ELSE /\ stack' = Append(stack, Frame(var, choices, domains))
                     /\ domains' = Del(domains, var)
                     /\ pc' = "loop"
                     /\ UNCHANGED << count, retval >>
    /\ UNCHANGED << op, setorder, input, grid, steps, limit, result >>
    /\ UNCHANGED genVars /\ UNCHANGED thrVars

\* lines 158-164 and 171-175: one iteration of `for val in choices`, up to the
\* recursive call, or through the undo when forward checking fails
count_try ==
    /\ Counting /\ pc = "loop" /\ Top.todo # {}
    /\ \E val \in NextVals(Top.todo) :
        LET f == Top
            fc == forward_check(domains, f.var, val)   \* on a deepcopy
        IN  IF fc.ok
            THEN /\ grid' = [ grid EXCEPT ![f.var] = val ]
                 /\ stack' = SetTop([ f EXCEPT !.todo = @ \ { val }, !.val = val,
                                               !.domains_backup = domains ])
                 /\ domains' = fc.domains
                 /\ pc' = "enter"
                 /\ UNCHANGED retval
            ELSE /\ grid' = Undo(grid, f.var)
                 /\ IF count >= limit
                    THEN /\ domains' = f.saved_domains
                         /\ stack' = Pop
                         /\ retval' = TRUE /\ pc' = "ret"
                    ELSE /\ stack' = SetTop([ f EXCEPT !.todo = @ \ { val },
                                                       !.val = val ])
                         /\ pc' = "loop"
                         /\ UNCHANGED << domains, retval >>
    /\ UNCHANGED << op, setorder, input, steps, count, limit, result >>
    /\ UNCHANGED genVars /\ UNCHANGED thrVars

\* lines 164-175: the recursive call returned
count_return ==
    /\ Counting /\ pc = "ret" /\ stack # << >>
    /\ grid' = Undo(grid, Top.var)
    /\ IF retval \/ count >= limit
       THEN /\ domains' = Top.saved_domains       \* clear() and update()
            /\ stack' = Pop
            /\ retval' = TRUE
            /\ UNCHANGED pc
       ELSE /\ domains' = Top.domains_backup
            /\ pc' = "loop"
            /\ UNCHANGED << stack, retval >>
    /\ UNCHANGED << op, setorder, input, steps, count, limit, result >>
    /\ UNCHANGED genVars /\ UNCHANGED thrVars

\* lines 176-180: the loop ran out of candidates
count_exhausted ==
    /\ Counting /\ pc = "loop" /\ Top.todo = {}
    /\ domains' = Top.saved_domains
    /\ grid' = Undo(grid, Top.var)
    /\ stack' = Pop
    /\ retval' = FALSE
    /\ pc' = "ret"
    /\ UNCHANGED << op, setorder, input, steps, count, limit, result >>
    /\ UNCHANGED genVars /\ UNCHANGED thrVars

\* lines 182-183
count_finish ==
    /\ op = "count" /\ pc = "ret" /\ stack = << >>
    /\ result' = [ kind |-> "count", n |-> count ]
    /\ pc' = "done"
    /\ UNCHANGED << op, setorder, input, limit >>
    /\ UNCHANGED searchVars /\ UNCHANGED genVars /\ UNCHANGED thrVars

---------------------------------------------------------------------------
(* The input grids of solve_sudoku and count_solutions: a solved grid with  *)
(* some cells of Pool blanked and possibly one clue overwritten.            *)

Base == [ cell \in Cells |->
            ((B * (Row(cell) % B) + (Row(cell) \div B) + Col(cell)) % N) + 1 ]

Pool == { << r, c >> : r \in 0 .. 2, c \in { 0, 3, 6 } }
PokeCell == << 0, 3 >>
PokeDigits == { Base[p] : p \in Pool }

Inputs ==
    { [ cell \in Cells |-> IF cell \in S THEN 0
                           ELSE IF cell = PokeCell THEN d ELSE Base[cell] ] :
        S \in { T \in SUBSET Pool : Cardinality(T) <= MaxBlanks },
        d \in PokeDigits }

NoThreads == [ t \in {} |-> 0 ]
EmptyMap == [ cell \in {} |-> {} ]
ZeroGrid == [ cell \in Cells |-> 0 ]

IdleSearch ==
    /\ domains = EmptyMap /\ stack = << >> /\ steps = 0 /\ count = 0
    /\ retval = FALSE /\ result = [ kind |-> "pending" ]
IdleGen ==
    /\ difficulty = None /\ puzzle = ZeroGrid /\ gstack = << >> /\ nshuf = 0
    /\ cells = << >> /\ backup = 0 /\ rc = << 0, 0 >> /\ removed = 0
IdleThreads ==
    /\ gdomains = 0 /\ heap = << >> /\ tpc = NoThreads /\ tgrid = NoThreads
    /\ tpos = NoThreads /\ tref = NoThreads /\ tret = NoThreads

Init ==
    /\ op \in { "solve", "count" }
    /\ setorder = "any"
    /\ pc = "start"
    /\ input \in Inputs
    /\ grid = input
    /\ limit \in (IF op = "count" THEN 0 .. MaxLimit ELSE { DefaultLimit })
    /\ IdleSearch /\ IdleGen /\ IdleThreads

Next ==
    \/ solve_start \/ solve_enter \/ solve_try \/ solve_return
    \/ solve_exhausted \/ solve_finish
    \/ count_start \/ count_enter \/ count_try \/ count_return
    \/ count_exhausted \/ count_finish

Spec == Init /\ [][Next]_vars

---------------------------------------------------------------------------
(* generate_full_solution, lines 185-209 *)

Identity == [ k \in 1 .. N |-> k ]
Reversed == [ k \in 1 .. N |-> N + 1 - k ]

\* random.shuffle(random_vals): any order within the bound MaxShuffled, the
\* untouched order after it
ShuffledVals == IF nshuf < MaxShuffled THEN { Identity, Reversed } ELSE { Identity }

\* lines 191-193: the first cell holding 0 in row-major order
HasEmpty(g) == \E p \in Cells : g[p] = 0
FirstEmpty(g) ==
    CHOOSE p \in Cells :
        g[p] = 0 /\ \A q \in Cells : g[q] = 0 => RowMajor(p) <= RowMajor(q)

\* a placement test that forgets the column (line 202)
CanPlace_no_column(g, cell, val) ==
    /\ val \notin { g[p] : p \in RowCells(cell) }
    /\ val \notin { g[p] : p \in BoxCells(cell) }

\* lines 198-203
CanPlace(g, cell, val) ==
    /\ val \notin { g[p] : p \in RowCells(cell) }
    /\ \A p \in ColCells(cell) : g[p] # val
    /\ val \notin { g[p] : p \in BoxCells(cell) }

GTop == gstack[Len(gstack)]
GPop == SubSeq(gstack, 1, Len(gstack) - 1)

\* lines 191-195 and 209: entry of generate_full_solution
gfs_enter ==
    /\ op = "generate" /\ pc = "gfs_enter"
    /\ IF HasEmpty(puzzle)
       THEN \E vals \in ShuffledVals :
              /\ gstack' = Append(gstack, [ cell |-> FirstEmpty(puzzle),
                                            random_vals |-> vals ])
              /\ nshuf' = Min(nshuf + 1, MaxShuffled)
              /\ pc' = "gfs_loop"
              /\ UNCHANGED retval
       ELSE /\ retval' = TRUE /\ pc' = "gfs_ret"
            /\ UNCHANGED << gstack, nshuf >>
    /\ UNCHANGED << op, setorder, input, grid, domains, stack, steps, count, limit, result,
                    difficulty, puzzle, cells, backup, rc, removed >>
    /\ UNCHANGED thrVars

\* lines 196-205: one iteration of `for val in random_vals`
gfs_try ==
    /\ op = "generate" /\ pc = "gfs_loop" /\ GTop.random_vals # << >>
    /\ LET val == Head(GTop.random_vals) IN
       /\ gstack' = [ gstack EXCEPT ![Len(gstack)].random_vals = Tail(@) ]
       /\ IF CanPlace(puzzle, GTop.cell, val)
          THEN /\ puzzle' = [ puzzle EXCEPT ![GTop.cell] = val ]
               /\ pc' = "gfs_enter"
          ELSE UNCHANGED << puzzle, pc >>
    /\ UNCHANGED << op, setorder, input, grid, domains, stack, steps, count, limit, retval,
                    result, difficulty, nshuf, cells, backup, rc, removed >>
    /\ UNCHANGED thrVars

\* lines 205-207: the recursive call returned
gfs_return ==
    /\ op = "generate" /\ pc = "gfs_ret" /\ gstack # << >>
    /\ IF retval
       THEN /\ gstack' = GPop                  \* line 206: return True
            /\ UNCHANGED << puzzle, pc >>
       ELSE /\ puzzle' = [ puzzle EXCEPT ![GTop.cell] = 0 ]
            /\ pc' = "gfs_loop"
            /\ UNCHANGED gstack
    /\ UNCHANGED << op, setorder, input, grid, domains, stack, steps, count, limit, retval,
                    result, difficulty, nshuf, cells, backup, rc, removed >>
    /\ UNCHANGED thrVars

\* line 208: no digit fits
gfs_exhausted ==
    /\ op = "generate" /\ pc = "gfs_loop" /\ GTop.random_vals = << >>
    /\ gstack' = GPop
    /\ retval' = FALSE
    /\ pc' = "gfs_ret"
    /\ UNCHANGED << op, setorder, input, grid, domains, stack, steps, count, limit, result,
                    difficulty, puzzle, nshuf, cells, backup, rc, removed >>
    /\ UNCHANGED thrVars

---------------------------------------------------------------------------
(* generate_sudoku, lines 211-242 *)

Difficulties == { "easy", "medium", "hard" }

\* lines 223-228
min_clues(d) ==
    IF d = "easy" THEN EasyClues
    ELSE IF d = "medium" THEN MediumClues
    ELSE HardClues

\* line 231: sum(1 for ... if grid[i][j] != 0)
ClueCount(g) == Cardinality({ p \in Cells : g[p] # 0 })

\* a loop test that stops one clue too late
EnoughRemoved_late(g, d) == ClueCount(g) < min_clues(d)

\* line 231: ... <= min_clues
EnoughRemoved(g, d) == ClueCount(g) <= min_clues(d)

\* a carver that keeps a cell cleared whenever some solution is left
KeepCleared_any(sol_count) == sol_count >= 1

\* line 237, negated: the cell stays cleared
KeepCleared(sol_count) == sol_count = 1

\* random.shuffle(cells): the removal orders of the model
RowMajorOrder == [ k \in 1 .. N * N |-> CellAt(k - 1) ]
ReverseOrder == [ k \in 1 .. N * N |-> CellAt(N * N - k) ]
Orders == { RowMajorOrder, ReverseOrder }

\* lines 217-218: the empty grid and the call of generate_full_solution
gen_start ==
    /\ op = "generate" /\ pc = "start"
    /\ puzzle' = ZeroGrid
    /\ pc' = "gfs_enter"
    /\ UNCHANGED << op, setorder, input, limit, result, difficulty, gstack, nshuf, cells,
                    backup, rc, removed >>
    /\ UNCHANGED searchVars /\ UNCHANGED thrVars

\* lines 218-229: generate_full_solution returned (its value is not read);
\* shuffle the cells
gen_shuffle ==
    /\ op = "generate" /\ pc = "gfs_ret" /\ gstack = << >>
    /\ \E order \in Orders : cells' = order
    /\ removed' = 0
    /\ pc' = "carve"
    /\ UNCHANGED << op, setorder, input, limit, result, difficulty, puzzle, gstack, nshuf,
                    backup, rc >>
    /\ UNCHANGED searchVars /\ UNCHANGED thrVars

\* lines 230-236 with 140-141: the next cell is cleared and count_solutions is
\* called on a copy of the grid
gen_clear ==
    /\ op = "generate" /\ pc = "carve"
    /\ cells # << >> /\ ~EnoughRemoved(puzzle, difficulty)
    /\ rc' = Head(cells)
    /\ cells' = Tail(cells)
    /\ backup' = puzzle[Head(cells)]
    /\ puzzle' = [ puzzle EXCEPT ![Head(cells)] = 0 ]
    /\ input' = puzzle'
    /\ grid' = puzzle'
    /\ count' = 0
    /\ domains' = get_empty_domains(puzzle')
    /\ pc' = "enter"
    /\ UNCHANGED << op, setorder, stack, steps, limit, retval, result, difficulty, gstack,
                    nshuf, removed >>
    /\ UNCHANGED thrVars

\* lines 182-183 and 236-241: count_solutions returned
gen_counted ==
    /\ op = "generate" /\ pc = "ret" /\ stack = << >>
    /\ IF KeepCleared(count)
       THEN /\ removed' = removed + 1
            /\ UNCHANGED puzzle
       ELSE /\ puzzle' = [ puzzle EXCEPT ![rc] = backup ]
            /\ UNCHANGED removed
    /\ pc' = "carve"
    /\ UNCHANGED << op, setorder, input, limit, result, difficulty, gstack, nshuf, cells,
                    backup, rc >>
    /\ UNCHANGED searchVars /\ UNCHANGED thrVars

\* lines 230-232 and 242: the loop ends and the grid is returned
gen_finish ==
    /\ op = "generate" /\ pc = "carve"
    /\ cells = << >> \/ EnoughRemoved(puzzle, difficulty)
    /\ result' = [ kind |-> "grid", grid |-> puzzle ]
    /\ pc' = "done"
    /\ UNCHANGED << op, setorder, input, limit >>
    /\ UNCHANGED searchVars /\ UNCHANGED genVars /\ UNCHANGED thrVars

InitGen ==
    /\ op = "generate"
    /\ setorder = "asc"
    /\ pc = "start"
    /\ difficulty \in Difficulties
    /\ input = ZeroGrid /\ grid = ZeroGrid
    /\ limit = DefaultLimit
    /\ IdleSearch
    /\ puzzle = ZeroGrid /\ gstack = << >> /\ nshuf = 0
    /\ cells = << >> /\ backup = 0 /\ rc = << 0, 0 >> /\ removed = 0
    /\ IdleThreads

NextGen ==
    \/ gen_start \/ gfs_enter \/ gfs_try \/ gfs_return \/ gfs_exhausted
    \/ gen_shuffle \/ gen_clear \/ gen_counted \/ gen_finish
    \/ count_enter \/ count_try \/ count_return \/ count_exhausted

SpecGen == InitGen /\ [][NextGen]_vars

---------------------------------------------------------------------------
(* get_empty_domains called from several threads, lines 38-51.  `domains`   *)
(* is a module-level global (line 38): every read and write of the name     *)
(* goes through it, and a thread switch can fall between any two of them.   *)

Threads == 1 .. NThreads
ThreadPool == { << 0, 0 >>, << 0, 3 >>, << 1, 0 >> }
ThreadInputs ==
    { [ cell \in Cells |-> IF cell \in S THEN 0 ELSE Base[cell] ] :
        S \in SUBSET ThreadPool }

\* d[k] = v on a dict
Put(d, k, v) == [ x \in (DOMAIN d) \cup { k } |-> IF x = k THEN v ELSE d[x] ]

\* the cells of the loops of lines 40-42 still ahead that hold 0
Ahead(t) == { p \in Cells : RowMajor(p) >= tpos[t] /\ tgrid[t][p] = 0 }
NextBlank(t) == CHOOSE p \in Ahead(t) : \A q \in Ahead(t) : RowMajor(p) <= RowMajor(q)

\* line 39: domains = {}
thread_new_dict(t) ==
    /\ tpc[t] = "start"
    /\ heap' = Append(heap, EmptyMap)
    /\ gdomains' = Len(heap) + 1
    /\ tpc' = [ tpc EXCEPT ![t] = "loop" ]
    /\ UNCHANGED << tgrid, tpos, tref, tret >>

\* lines 40-50: advance to the next empty cell, compute its candidates and
\* load the global for the store
thread_load(t) ==
    /\ tpc[t] = "loop" /\ Ahead(t) # {}
    /\ tref' = [ tref EXCEPT ![t] = gdomains ]
    /\ tpos' = [ tpos EXCEPT ![t] = RowMajor(NextBlank(t)) ]
    /\ tpc' = [ tpc EXCEPT ![t] = "store" ]
    /\ UNCHANGED << gdomains, heap, tgrid, tret >>

\* line 50: domains[(r,c)] = ..., into the dict that was loaded
thread_store(t) ==
    /\ tpc[t] = "store"
    /\ heap' = [ heap EXCEPT ![tref[t]] =
                   Put(@, CellAt(tpos[t]), CellDomain(tgrid[t], CellAt(tpos[t]))) ]
    /\ tpos' = [ tpos EXCEPT ![t] = @ + 1 ]
    /\ tpc' = [ tpc EXCEPT ![t] = "loop" ]
    /\ UNCHANGED << gdomains, tgrid, tref, tret >>

\* line 51: return domains
thread_return(t) ==
    /\ tpc[t] = "loop" /\ Ahead(t) = {}
    /\ tret' = [ tret EXCEPT ![t] = gdomains ]
    /\ tpc' = [ tpc EXCEPT ![t] = "returned" ]
    /\ UNCHANGED << gdomains, heap, tgrid, tpos, tref >>

InitThreads ==
    /\ op = "threads"
    /\ setorder = "any"
    /\ pc = "start"
    /\ input = ZeroGrid /\ grid = ZeroGrid
    /\ limit = DefaultLimit
    /\ IdleSearch /\ IdleGen
    /\ gdomains = 0 /\ heap = << >>
    /\ tpc = [ t \in Threads |-> "start" ]
    /\ tgrid \in [ Threads -> ThreadInputs ]
    /\ tpos = [ t \in Threads |-> 0 ]
    /\ tref = [ t \in Threads |-> 0 ]
    /\ tret = [ t \in Threads |-> 0 ]

NextThreads ==
    \E t \in Threads :
        /\ \/ thread_new_dict(t) \/ thread_load(t)
           \/ thread_store(t) \/ thread_return(t)
        /\ UNCHANGED << op, setorder, pc, input, limit, result >>
        /\ UNCHANGED searchVars /\ UNCHANGED genVars

SpecThreads == InitThreads /\ [][NextThreads]_vars

LiveSpec == Init /\ [][Next]_vars /\ WF_vars(Next)

---------------------------------------------------------------------------
(* What the claims speak of: the rules of Sudoku, stated without the code  *)

Units ==
    { RowCells(<< r, 0 >>) : r \in Idx } \cup { ColCells(<< 0, c >>) : c \in Idx }
    \cup { BoxCells(<< B * i, B * j >>) : i, j \in 0 .. (B - 1) }

\* the other cells of p's row, column and box
PeersOf(p) == (UNION { u \in Units : p \in u }) \ { p }
PeerTable == [ p \in Cells |-> PeersOf(p) ]

\* every row, column and box is a permutation of 1..9
Valid(g) == \A u \in Units : { g[p] : p \in u } = Digits

\* no two clues of a row, column or box are equal
RuleConsistent(g) ==
    \A p \in Cells : g[p] # 0 => \A q \in PeerTable[p] : g[p] # g[q]

\* the digits no peer of p holds in g
Free(g, p) == Digits \ { g[q] : q \in PeerTable[p] }

Extends(g, clues) == \A p \in Cells : clues[p] # 0 => g[p] = clues[p]

Blanks(g) == { p \in Cells : g[p] = 0 }

\* the valid completions of g, by enumeration: a blank cell can only take a
\* digit none of its peers holds, and every completion fills every blank, so
\* branching on any one blank cell (here one with the fewest free digits)
\* enumerates them all
RECURSIVE Completions(_)
Completions(g) ==
    IF Blanks(g) = {}
    THEN IF Valid(g) THEN { g } ELSE {}
    ELSE LET free == [ q \in Blanks(g) |-> Free(g, q) ]
             p == CHOOSE q \in Blanks(g) :
                    \A q2 \in Blanks(g) : Cardinality(free[q]) <= Cardinality(free[q2])
         IN  UNION { Completions([ g EXCEPT ![p] = d ]) : d \in free[p] }

Solutions(g) == Completions(g)

---------------------------------------------------------------------------
(* Claims about solve_sudoku and count_solutions, checked under Spec *)

SolveDone == op = "solve" /\ pc = "done"
CountDone == op = "count" /\ pc = "done"

\* C1: on a rule-consistent grid solve returns the solution when there is
\* exactly one, some valid completion that keeps the clues when there are
\* several, and None when there is none.
C1_SolveReturnsSolution ==
    (SolveDone /\ RuleConsistent(input)) =>
        LET sols == Solutions(input) IN
        /\ Cardinality(sols) = 1 =>
              result.kind = "grid" /\ result.grid \in sols
        /\ Cardinality(sols) >= 2 =>
              /\ result.kind = "grid"
              /\ Blanks(result.grid) = {}
              /\ Valid(result.grid)
              /\ Extends(result.grid, input)
        /\ sols = {} => result.kind = "None"

C1_Witness ==
    /\ SolveDone /\ RuleConsistent(input)
    /\ Cardinality(Solutions(input)) >= 2
    /\ result.kind = "grid"

\* C2: on a rule-consistent grid count_solutions returns the smaller of the
\* bound and the number of valid completions, and the counter never exceeds
\* the bound during the search.
C2_CountIsMinOfBound ==
    /\ op = "count" => count <= limit
    /\ (CountDone /\ RuleConsistent(input)) =>
          result.n = Min(limit, Cardinality(Solutions(input)))

C2_Witness ==
    /\ CountDone /\ RuleConsistent(input)
    /\ limit = DefaultLimit
    /\ Cardinality(Solutions(input)) > DefaultLimit
    /\ result.n = DefaultLimit

\* C4 (as claimed): on a grid with a duplicate clue in a row, column or box
\* solve returns None.
C4_DuplicateClueGivesNone ==
    (SolveDone /\ ~RuleConsistent(input)) => result.kind = "None"

\* C8: at the entry of every recursive search step the domain map is the one
\* compute_domains gives for the current grid: its keys are the cells holding
\* 0 and no domain holds a digit of the cell's row, column or box.
C8_DomainsSynchronized ==
    (op \in { "solve", "count" } /\ pc = "enter") =>
        /\ DOMAIN domains = Blanks(grid)
        /\ \A p \in DOMAIN domains : domains[p] = Free(grid, p)

\* a step entered after an earlier candidate of some caller was tried and undone
C8_Witness ==
    /\ op \in { "solve", "count" } /\ pc = "enter"
    /\ Len(stack) >= 2
    /\ \E k \in 1 .. Len(stack) :
          Cardinality(stack[k].todo) + 1 < Cardinality(stack[k].saved_domains[stack[k].var])

\* the grid a step was entered with: the input and the trial digits of the
\* callers
TrialGrid ==
    [ cell \in Cells |->
        IF \E k \in 1 .. Len(stack) : stack[k].var = cell
        THEN LET k == CHOOSE j \in 1 .. Len(stack) : stack[j].var = cell
             IN  stack[k].val
        ELSE input[cell] ]

\* the domain map the step that just returned was entered with: what its
\* caller built for it
EnteredWith ==
    IF stack = << >> THEN get_empty_domains(input)
    ELSE forward_check(Top.domains_backup, Top.var, Top.val).domains

\* C9: when a step of solve returns failure the grid and the domain map are
\* as they were when the step was entered; when solve returns None the grid
\* is the input grid; count_solutions leaves the grid equal to its input.
C9_BacktrackRestores ==
    /\ (op = "solve" /\ pc = "ret" /\ ~retval) =>
          grid = TrialGrid /\ domains = EnteredWith
    /\ (SolveDone /\ result.kind = "None") => grid = input
    /\ CountDone => grid = input

\* a step of solve below the top level that tried candidates and failed
C9_Witness ==
    /\ op = "solve" /\ pc = "ret" /\ ~retval
    /\ Len(stack) >= 1
    /\ Blanks(grid) # {}
    /\ \A p \in DOMAIN domains : domains[p] # {}

\* a step below the top level is entered with fewer cells in the domain map
\* than its caller was (saved_domains is the caller's map at its entry)
EnterShrinks ==
    (op \in { "solve", "count" } /\ pc = "enter" /\ stack # << >>) =>
        Cardinality(DOMAIN domains) < Cardinality(DOMAIN Top.saved_domains)

\* C10: every recursive step is entered with a domain map that has strictly
\* fewer cells than the map its caller was entered with, and the search of
\* solve and of count_solutions ends on every input grid.
C10_SearchTerminates == []EnterShrinks /\ <>(pc = "done")

C10_Witness ==
    /\ op \in { "solve", "count" } /\ pc = "enter"
    /\ Len(stack) >= MaxBlanks

---------------------------------------------------------------------------
(* Claims about generate_sudoku and generate_full_solution, checked under  *)
(* SpecGen                                                                 *)

GenDone == op = "generate" /\ pc = "done"
AtLoopHead == op = "generate" /\ pc \in { "carve", "done" }

\* C3: the grid generate returns has exactly one solution, and so has the
\* grid after every iteration of the carving loop: the cell of the iteration
\* is cleared when count_solutions with bound 2 returned 1 and holds its
\* original digit otherwise.
C3_UniqueAfterEveryIteration ==
    AtLoopHead =>
        /\ Cardinality(Solutions(puzzle)) = 1
        /\ Len(cells) < N * N =>
              \/ count = 1 /\ puzzle[rc] = 0
              \/ count # 1 /\ puzzle[rc] = backup /\ backup # 0
        /\ pc = "done" => result.grid = puzzle

\* an iteration that put the digit back after earlier cells were cleared
C3_Witness ==
    /\ op = "generate" /\ pc = "carve"
    /\ removed >= 1
    /\ count = DefaultLimit /\ puzzle[rc] = backup /\ backup # 0

\* C6 (as claimed): the returned grid has at most the difficulty's threshold
\* of clues.
C6_ClueCountAtMostThreshold ==
    GenDone => ClueCount(result.grid) <= min_clues(difficulty)

\* C6 (amended): the returned grid never has fewer clues than the threshold,
\* and has more only when all 81 cells were visited.
C6_ClueCountReachesThresholdOrAllVisited ==
    GenDone =>
        /\ ClueCount(result.grid) >= min_clues(difficulty)
        /\ ClueCount(result.grid) > min_clues(difficulty) => cells = << >>

C6_Witness ==
    /\ GenDone
    /\ ClueCount(result.grid) > min_clues(difficulty)
    /\ cells = << >>

\* C7: from the all-zero grid generate_full_solution returns True, and the
\* grid then has no zero and every row, column and box is a permutation of
\* 1..9.
C7_FullSolutionValid ==
    (op = "generate" /\ pc = "gfs_ret" /\ gstack = << >>) =>
        /\ retval
        /\ Blanks(puzzle) = {}
        /\ Valid(puzzle)

\* the outermost call returned after a shuffle that was not the identity
C7_Witness ==
    /\ op = "generate" /\ pc = "gfs_ret" /\ gstack = << >>
    /\ puzzle[<< 0, 0 >>] = N

---------------------------------------------------------------------------
(* Claim about concurrent calls, checked under SpecThreads *)

\* C5 (as claimed): under every interleaving the domain map a thread's call
\* returns is the map built from the thread's own grid, as if it ran alone.
C5_ThreadsGetTheirOwnDomains ==
    \A t \in Threads :
        tpc[t] = "returned" => heap[tret[t]] = get_empty_domains(tgrid[t])

=============================================================================
